---- MODULE Spec2Model ----
(***************************************************************************)
(* A model of gepetto.py: the plugin's three actions (explain function,    *)
(* auto-complete comments, rename variables), the background query threads *)
(* that talk to the completion API, the callbacks marshalled onto the host *)
(* UI thread, and the text functions the callbacks are built from.         *)
(*                                                                         *)
(* Text is modelled as a sequence of one-character strings, so that the    *)
(* regular expressions, slices, splits and joins of the source can be      *)
(* computed character by character.                                        *)
(***************************************************************************)
EXTENDS Integers, Sequences, FiniteSets, TLC

(***************************************************************************)
(* Bounds of the model.                                                    *)
(***************************************************************************)
\* Longest reply text typed character by character in SpecJson.
MaxReplyLen == 8

\* User-initiated actions explored in one run of Spec.
MaxActions == 1

\* User-initiated actions in flight together in one run of SpecConc.
MaxConcurrent == 2

\* Nested query_model calls (token-budget retries) explored per thread.
MaxDepth == 2

(***************************************************************************)
(* Generic text helpers (Python str operations used by the source).        *)
(***************************************************************************)
None == [t |-> "None"]

Min(a, b) == IF a < b THEN a ELSE b

Max(a, b) == IF a > b THEN a ELSE b

\* s[i:j] of Python, 0-based half-open, for 0 <= i and any j (clipped).
Slice(s, i, j) == SubSeq(s, Min(i, Len(s)) + 1, Min(j, Len(s)))

\* do the characters of p stand in s from 0-based offset i?
StartsAt(s, p, i) ==
    /\ i >= 0
    /\ i + Len(p) <= Len(s)
    /\ \A k \in 1..Len(p) : s[i + k] = p[k]

\* 0-based offsets at which p occurs in s
Occurrences(s, p) == {i \in 0..(Len(s) - Len(p)) : StartsAt(s, p, i)}

SetMin(S) == CHOOSE x \in S : \A y \in S : x <= y

SetMax(S) == CHOOSE x \in S : \A y \in S : x >= y

\* str.find: the lowest offset of p in s, -1 when absent
Find(s, p) == IF Occurrences(s, p) = {} THEN -1 ELSE SetMin(Occurrences(s, p))

Whitespace == {" ", "\n", "\t", "\r"}

Digits == {"0", "1", "2", "3", "4", "5", "6", "7", "8", "9"}

(***************************************************************************)
(* extract_json_or_retry, line 318: re.search(r"\{[^}]*?\}", response).    *)
(* The match starts at the first opening brace that has a closing brace    *)
(* somewhere after it and, [^}]*? excluding every closing brace, ends at   *)
(* the first closing brace after that opening brace.                       *)
(***************************************************************************)
BraceStarts(response) ==
    {i \in 1..Len(response) :
        /\ response[i] = "{"
        /\ \E j \in (i + 1)..Len(response) : response[j] = "}"}

BraceMatch(response) ==
    IF BraceStarts(response) = {} THEN None
    ELSE LET i == SetMin(BraceStarts(response))
             j == SetMin({k \in (i + 1)..Len(response) : response[k] = "}"})
         IN  [t |-> "match", group0 |-> SubSeq(response, i, j)]

(***************************************************************************)
(* json.loads, line 330, on the characters the model uses: objects,        *)
(* strings without escapes, non-negative integers, and whitespace between  *)
(* tokens.  A parse step returns [ok, val, pos]: pos is the 1-based        *)
(* position after the value.  Values are tagged, so that the empty string, *)
(* the empty object and a number never coincide.  An object is a function  *)
(* from its keys to its values (the last of two equal keys wins, as in a   *)
(* Python dict).                                                           *)
(***************************************************************************)
JsonFail == [ok |-> FALSE, val |-> None, pos |-> 0]

RECURSIVE SkipWs(_, _)
SkipWs(s, i) == IF i <= Len(s) /\ s[i] \in Whitespace THEN SkipWs(s, i + 1) ELSE i

\* a string literal starting at the quote at position i
JsonString(s, i) ==
    IF i > Len(s) \/ s[i] # "\"" THEN JsonFail
    ELSE LET closing == {j \in (i + 1)..Len(s) : s[j] = "\""}
         IN  IF closing = {} THEN JsonFail
             ELSE LET j == SetMin(closing)
                  IN  [ok |-> TRUE,
                       val |-> [t |-> "str", s |-> SubSeq(s, i + 1, j - 1)],
                       pos |-> j + 1]

RECURSIVE DigitRunEnd(_, _)
DigitRunEnd(s, i) == IF i <= Len(s) /\ s[i] \in Digits THEN DigitRunEnd(s, i + 1) ELSE i

DigitValue(c) ==
    CASE c = "0" -> 0 [] c = "1" -> 1 [] c = "2" -> 2 [] c = "3" -> 3 [] c = "4" -> 4
      [] c = "5" -> 5 [] c = "6" -> 6 [] c = "7" -> 7 [] c = "8" -> 8 [] c = "9" -> 9

\* int() of a run of decimal digits
RECURSIVE ParseInt(_)
ParseInt(ds) ==
    IF ds = <<>> THEN 0
    ELSE 10 * ParseInt(SubSeq(ds, 1, Len(ds) - 1)) + DigitValue(ds[Len(ds)])

\* a number: 0, or a digit 1-9 followed by digits (a leading 0 ends the number)
JsonNumber(s, i) ==
    IF i > Len(s) \/ s[i] \notin Digits THEN JsonFail
    ELSE LET e == IF s[i] = "0" THEN i + 1 ELSE DigitRunEnd(s, i)
         IN  [ok |-> TRUE,
              val |-> [t |-> "num", n |-> ParseInt(SubSeq(s, i, e - 1))],
              pos |-> e]

RECURSIVE JsonValue(_, _)
RECURSIVE JsonMembers(_, _, _)
\* the members of an object from position i (at a key), m being the pairs so far
JsonMembers(s, i, m) ==
    LET k == JsonString(s, i)
    IN  IF ~k.ok THEN JsonFail
        ELSE LET c == SkipWs(s, k.pos)
             IN  IF c > Len(s) \/ s[c] # ":" THEN JsonFail
                 ELSE LET v == JsonValue(s, SkipWs(s, c + 1))
                      IN  IF ~v.ok THEN JsonFail
                          ELSE LET m2 == [x \in (DOMAIN m) \cup {k.val.s} |->
                                             IF x = k.val.s THEN v.val ELSE m[x]]
                                   n == SkipWs(s, v.pos)
                               IN  IF n > Len(s) THEN JsonFail
                                   ELSE IF s[n] = "}"
                                        THEN [ok |-> TRUE,
                                              val |-> [t |-> "obj", m |-> m2],
                                              pos |-> n + 1]
                                   ELSE IF s[n] = ","
                                        THEN JsonMembers(s, SkipWs(s, n + 1), m2)
                                   ELSE JsonFail

JsonValue(s, i) ==
    IF i > Len(s) THEN JsonFail
    ELSE IF s[i] = "{"
         THEN LET n == SkipWs(s, i + 1)
              IN  IF n <= Len(s) /\ s[n] = "}"
                  THEN [ok |-> TRUE, val |-> [t |-> "obj", m |-> <<>>], pos |-> n + 1]
                  ELSE JsonMembers(s, n, <<>>)
    ELSE IF s[i] = "\"" THEN JsonString(s, i)
    ELSE JsonNumber(s, i)

\* json.loads(text): one value, nothing but whitespace after it; JsonFail
\* stands for json.decoder.JSONDecodeError
JsonLoads(text) ==
    LET v == JsonValue(text, SkipWs(text, 1))
    IN  IF v.ok /\ SkipWs(text, v.pos) > Len(text) THEN v ELSE JsonFail

\* the truth value Python gives the parsed data in "if not kwargs"
Truthy(val) ==
    CASE val.t = "None" -> FALSE
      [] val.t = "obj" -> DOMAIN val.m # {}
      [] val.t = "str" -> val.s # <<>>
      [] val.t = "num" -> val.n # 0

(***************************************************************************)
(* extract_json_or_retry, lines 309-340.  The result records what the call *)
(* returns (ret), what it prints (printed) and the repair query it hands   *)
(* to query_model_async, if any (query: the prompt and the retry counter   *)
(* bound into the callback).                                               *)
(***************************************************************************)
RetryCap == 3

\* "if retries >= 3" (lines 320 and 332); the mutant compares with > instead
GiveUpOffByOne(retries) == retries > RetryCap

GiveUp(retries) == retries >= RetryCap

\* the mutant of NextRetries: the counter is passed on as it is
SameRetries(retries) == retries

\* "retries=retries + 1" (lines 327 and 338)
NextRetries(retries) == retries + 1

RetryOrGiveUp(response, retries, prompt) ==
    IF GiveUp(retries)
    THEN [ret |-> None, printed |-> "giving_up", dumped |-> response, query |-> None]
    ELSE [ret |-> None, printed |-> "asking_to_fix", dumped |-> <<>>,
          query |-> [t |-> "query", prompt |-> prompt, retries |-> NextRetries(retries)]]

extract_json_or_retry(response, retries) ==
    LET j == BraceMatch(response)
    IN  IF j.t = "None"
        THEN RetryOrGiveUp(response, retries, [kind |-> "fix_response", text |-> response])
        ELSE LET data == JsonLoads(j.group0)
             IN  IF ~data.ok
                 THEN RetryOrGiveUp(response, retries,
                                    [kind |-> "fix_json", text |-> j.group0])
                 ELSE [ret |-> data.val, printed |-> "nothing", dumped |-> <<>>,
                       query |-> None]

(***************************************************************************)
(* The plugin at run time.                                                 *)
(*                                                                         *)
(* A user action a (ExplainHandler, ExplainFurtherHandler or RenameHandler *)
(* .activate) starts a chain of queries.  Every query_model_async call     *)
(* starts one background thread running query_model; the thread of chain a *)
(* whose callback carries retry counter r is thread <<a, r>>.  A thread    *)
(* record holds the locals of query_model and, once the callback runs, of  *)
(* the callback.                                                           *)
(***************************************************************************)
VARIABLES
    screen_ea,   \* idaapi.get_screen_ea(): the function under the cursor
    vdui,        \* ida_hexrays.get_widget_vdui(ctx.widget) gives a view
    nact,        \* user actions started so far
    act,         \* act[a]: kind of action a and the arguments bound at activate
    thr,         \* thr[<<a, r>>]: the thread of chain a with retry counter r
    hostLog,     \* host-state mutations performed: [op, by]
    marshaled,   \* marshaled[t]: replies thread t handed to execute_sync
    queries,     \* queries[a]: query_model_async calls of chain a
    chain,       \* chain[a]: what chain a printed last (the message and, when
                 \* it gave up, the response it dumped) and the mapping its
                 \* last callback extracted
    px           \* the input and output of a text function (the Spec* below)

vars == <<screen_ea, vdui, nact, act, thr, hostLog, marshaled, queries, chain, px>>

mainVars == <<screen_ea, vdui, nact, act, thr, hostLog, marshaled, queries, chain>>

Actions == 1..Max(MaxActions, MaxConcurrent)

\* retry counters a thread can carry: the code stops at RetryCap, the model
\* leaves room for one more
Retries == 0..(RetryCap + 1)

Threads == Actions \X Retries

\* the function the cursor stands on while the plugin runs
FuncEa == 1

Kinds == {"explain", "comments", "rename"}

\* the callback each handler binds (lines 208, 265, 360)
CallbackOf(kind) ==
    CASE kind = "explain" -> "comment_callback"
      [] kind = "comments" -> "inline_comments_callback"
      [] kind = "rename" -> "rename_callback"

\* query_model's default completion budget (line 371)
DefaultMaxTokens == 2500

\* "if max_tokens >= 750" (line 396)
TokenFloor == 750

NoThread ==
    [pc |-> "none", cb |-> None, max_tokens |-> 0, depth |-> 0, nreq |-> 0,
     sent |-> None, e |-> None, response |-> <<>>, printed |-> "nothing",
     runner |-> "nobody", ret |-> None]

\* lines 379-384: the keyword arguments of openai.ChatCompletion.create, the
\* request on its way while the thread is at "request".  The call is made
\* with model and messages only, whatever max_tokens is.
CreateKwargs(query, max_tokens) ==
    [model |-> "gpt-3.5-turbo", messages |-> <<[role |-> "user", content |-> "query"]>>]

\* threading.Thread(target=query_model, args=[query, cb]).start()  (line 417):
\* the thread is about to send its first request.  The prompt is not kept:
\* query_model only hands it to the API, whose answer the model leaves open.
NewThread(query, cb) ==
    [NoThread EXCEPT !.pc = "request", !.cb = cb, !.max_tokens = DefaultMaxTokens,
                     !.sent = CreateKwargs(query, DefaultMaxTokens)]

\* model replies of the runs of Spec: no braces; braces around invalid JSON;
\* the empty object; a mapping with a named key; a mapping with a numeric key
ReplyNoBrace == <<"o", "k">>

ReplyMalformed == <<"{", "a", "}">>

ReplyEmptyObject == <<"{", "}">>

ReplyNamed == <<"{", "\"", "a", "\"", ":", "\"", "b", "\"", "}">>

ReplyNumbered == <<"{", "\"", "0", "\"", ":", "\"", "b", "\"", "}">>

SampleReplies == {ReplyNoBrace, ReplyMalformed, ReplyEmptyObject, ReplyNamed, ReplyNumbered}

\* the (hard limit, prompt tokens) pairs of the context-length errors of Spec,
\* as the digit strings of the error text
Digits4000 == <<"4", "0", "0", "0">>

Digits3250 == <<"3", "2", "5", "0">>

Digits3300 == <<"3", "3", "0", "0">>

Digits3500 == <<"3", "5", "0", "0">>

ContextErrors ==
    {[t |-> "InvalidRequestError", matches |-> TRUE, group1 |-> Digits4000, group2 |-> g2] :
        g2 \in {Digits3250, Digits3300, Digits3500}}

\* errors that are not a recognised context-length error: an
\* InvalidRequestError with another text, another OpenAIError, another exception
OtherErrors ==
    {[t |-> "InvalidRequestError", matches |-> FALSE, group1 |-> <<>>, group2 |-> <<>>],
     [t |-> "OpenAIError", matches |-> FALSE, group1 |-> <<>>, group2 |-> <<>>],
     [t |-> "Exception", matches |-> FALSE, group1 |-> <<>>, group2 |-> <<>>]}

\* thread t's callback is running: in its body, or about to return after it
\* started a repair query
InCallback(t) == thr[t].pc \in {"callback", "callback_return"}

\* a message on the output window, without a dumped response
Printed(msg) == [msg |-> msg, dumped |-> <<>>, data |-> None]

\* extract_json_or_retry on the replies and retry counters of the runs,
\* computed once
ExtractTable ==
    [response \in SampleReplies, retries \in Retries |->
        extract_json_or_retry(response, retries)]

UiBusy == \E t \in Threads : InCallback(t) /\ thr[t].runner = "ui"

InitMain ==
    /\ screen_ea = FuncEa
    /\ vdui \in BOOLEAN
    /\ nact = 0
    /\ act = [a \in Actions |-> [kind |-> "none", address |-> 0, view |-> FALSE]]
    /\ thr = [t \in Threads |-> NoThread]
    /\ hostLog = {}
    /\ marshaled = [t \in Threads |-> 0]
    /\ queries = [a \in Actions |-> 0]
    /\ chain = [a \in Actions |-> Printed("nothing")]

NoPx == [fn |-> "none"]

Init == InitMain /\ px = NoPx

(***************************************************************************)
(* The handlers' activate (lines 200-214, 260-266, 353-361): bind the      *)
(* callback to the function under the cursor and to the view, and start    *)
(* the first query.  The view is FALSE when get_widget_vdui gives none.    *)
(***************************************************************************)
\* query_model_async (lines 410-418): one new thread per call
query_model_async(query, cb) == NewThread(query, cb)

\* the prompt a handler builds around the decompilation (which the model
\* leaves out: no callback reads the prompt)
HandlerPrompt(kind) == [kind |-> kind, text |-> <<>>]

Activate(kind, limit) ==
    /\ nact < limit
    /\ ~UiBusy
    /\ LET a == nact + 1
           cb == [fn |-> CallbackOf(kind), address |-> screen_ea, view |-> vdui,
                  decompiled_func |-> IF kind = "comments" THEN screen_ea ELSE 0,
                  retries |-> 0]
       IN  /\ nact' = a
           /\ act' = [act EXCEPT ![a] = [kind |-> kind, address |-> screen_ea, view |-> vdui]]
           /\ thr' = [thr EXCEPT ![<<a, 0>>] = query_model_async(HandlerPrompt(kind), cb)]
           /\ queries' = [queries EXCEPT ![a] = 1]
    /\ UNCHANGED <<screen_ea, vdui, hostLog, marshaled, chain, px>>

(***************************************************************************)
(* query_model, lines 371-406, on the background thread t.                 *)
(***************************************************************************)
\* the mutant of Deliver: the callback is called on the query thread itself
DeliverDirect(rec) == [rec EXCEPT !.pc = "callback", !.runner = "bg"]

\* lines 385-386: ida_kernwin.execute_sync(partial(cb, response=...), MFF_WRITE):
\* the call is queued for the UI thread and the query thread blocks in it
Deliver(rec) == [rec EXCEPT !.pc = "sync_wait"]

\* query_model's locals that nothing reads once the reply is there
Replied(rec, text) ==
    [rec EXCEPT !.response = text, !.e = None, !.max_tokens = 0, !.depth = 0,
                !.nreq = 0, !.sent = None, !.printed = "nothing"]

\* the API answers with a completion: lines 379-386
ApiReply(t, text) ==
    /\ thr[t].pc = "request"
    /\ thr' = [thr EXCEPT ![t] =
                  Deliver(Replied(@, text))]
    /\ marshaled' = [marshaled EXCEPT ![t] = @ + 1]
    /\ UNCHANGED <<screen_ea, vdui, nact, act, hostLog, queries, chain, px>>

\* the mutant of BudgetUsable: a floor that is not inclusive
BudgetUsableStrict(max_tokens) == max_tokens > TokenFloor

\* "if max_tokens >= 750" (line 396)
BudgetUsable(max_tokens) == max_tokens >= TokenFloor

\* lines 394-395: the budget recomputed from the two numbers of the error text
Budget(e) == ParseInt(e.group1) - ParseInt(e.group2)

\* the API raises the context-length error e: lines 387-401.  With a usable
\* budget query_model calls itself (line 399): the same thread sends the
\* request again, one frame deeper.
ApiContextError(t, e) ==
    /\ thr[t].pc = "request"
    /\ thr[t].depth < MaxDepth
    /\ e \in ContextErrors
    /\ LET max_tokens == Budget(e)
       IN  IF BudgetUsable(max_tokens)
           THEN /\ thr' = [thr EXCEPT ![t] =
                              [@ EXCEPT !.nreq = @ + 1, !.e = e, !.max_tokens = max_tokens,
                                        !.depth = @ + 1, !.printed = "reducing",
                                        !.sent = CreateKwargs("query", max_tokens)]]
                /\ chain' = chain
           ELSE /\ thr' = [thr EXCEPT ![t] =
                              [@ EXCEPT !.nreq = @ + 1, !.e = e, !.max_tokens = max_tokens,
                                        !.pc = "done", !.printed = "too_big"]]
                /\ chain' = [chain EXCEPT ![t[1]] = Printed("too_big")]
    /\ UNCHANGED <<screen_ea, vdui, nact, act, hostLog, marshaled, queries, px>>

\* any other failure of the request: lines 391-393 and 403-406.  After a
\* report query_model returns and the thread is over; its record keeps what
\* it last saw.
\* the mutant of AfterReport: the request is sent again after the report
AfterReportRetry == "request"

\* where query_model is after it reported a failure: it returns (line 393,
\* and the end of the function after lines 404 and 406)
AfterReport == "done"

ApiOtherError(t, e) ==
    /\ thr[t].pc = "request"
    /\ e \in OtherErrors
    /\ LET msg == IF e.t = "Exception" THEN "general_exception" ELSE "could_not_complete"
       IN  /\ thr' = [thr EXCEPT ![t] =
                         [@ EXCEPT !.nreq = @ + 1, !.e = e, !.pc = AfterReport,
                                   !.printed = msg]]
           /\ chain' = [chain EXCEPT ![t[1]] = Printed(msg)]
    /\ UNCHANGED <<screen_ea, vdui, nact, act, hostLog, marshaled, queries, px>>

(***************************************************************************)
(* The UI thread takes one queued execute_sync request when it is idle and *)
(* runs the callback to its end before it takes another.  RunCallback is   *)
(* the UI thread entering the callback; the Cb* actions are the callback's *)
(* body, after which execute_sync returns and the query thread ends.       *)
(***************************************************************************)
RunCallback(t) ==
    /\ thr[t].pc = "sync_wait"
    /\ ~UiBusy
    /\ thr' = [thr EXCEPT ![t] = [@ EXCEPT !.pc = "callback", !.runner = "ui"]]
    /\ UNCHANGED <<screen_ea, vdui, nact, act, hostLog, marshaled, queries, chain, px>>

\* calls of the host API that change host state, made by the callback of t
Mutations(t, ops) == {[op |-> op, by |-> thr[t].runner] : op \in ops}

\* the callback has returned (or raised): execute_sync returns, thread over
Finished == [NoThread EXCEPT !.pc = "done"]

\* "if view: view.refresh_view(...)" (lines 154-155, 244-245, 303-304)
RefreshOps(cb) == IF cb.view THEN {"refresh_view"} ELSE {}

\* str.isdigit of a key (line 140)
IsDigit(k) == k # <<>> /\ \A i \in 1..Len(k) : k[i] \in Digits

\* comment_callback, lines 222-246, but for the text of the comment
CbCommentHost(t) ==
    /\ thr[t].pc = "callback" /\ thr[t].cb.fn = "comment_callback"
    /\ hostLog' = hostLog \cup Mutations(t, {"set_func_cmt"} \cup RefreshOps(thr[t].cb))
    /\ thr' = [thr EXCEPT ![t] = Finished]
    /\ chain' = [chain EXCEPT ![t[1]] = Printed("query_finished")]
    /\ UNCHANGED <<screen_ea, vdui, nact, act, marshaled, queries>>

CbComment(t) == CbCommentHost(t) /\ UNCHANGED px

\* The threads after the callback of t called extract_json_or_retry with
\* result out.  A repair query (lines 325-327, 337-338) starts thread
\* <<a, retries + 1>> with the callback bound to retry_kwargs and the
\* incremented counter, while the callback of t has still to return; without
\* one, t is over when the callback returns.
AfterExtract(t, out, retry_address) ==
    IF out.query.t = "query"
    THEN [thr EXCEPT ![t] = [@ EXCEPT !.pc = "callback_return", !.ret = out.ret],
                     ![<<t[1], out.query.retries>>] =
                         query_model_async(out.query.prompt,
                                           [thr[t].cb EXCEPT !.retries = out.query.retries,
                                                             !.address = retry_address])]
    ELSE [thr EXCEPT ![t] = Finished]

QueriesAfter(t, out) ==
    IF out.query.t = "query" THEN [queries EXCEPT ![t[1]] = @ + 1] ELSE queries

\* what the chain shows when the callback got no usable mapping
NoMapping(out) == [msg |-> out.printed, dumped |-> out.dumped, data |-> out.ret]

\* the mutant of OpsUnlessReturned: the callback goes on whatever it got
OpsWithoutReturn(value, ops) == ops

\* "if not kwargs: return" (lines 136-137) and "if not names: return" (lines
\* 284-285): the host calls below the test are made only with a truthy value
OpsUnlessReturned(value, ops) == IF Truthy(value) THEN ops ELSE {}

\* inline_comments_callback, lines 123-156.  has_cmts: the function has user
\* comments to rewrite.  make_args (line 140) raises, outside the try, when
\* no key of the mapping is a number (and when there is no mapping to take
\* keys from).
CbInline(t, has_cmts) ==
    /\ thr[t].pc = "callback" /\ thr[t].cb.fn = "inline_comments_callback"
    /\ LET cb == thr[t].cb
           out == ExtractTable[thr[t].response, cb.retries]
           kwargs == out.ret
           make_args_ok == kwargs.t = "obj" /\ \E k \in DOMAIN kwargs.m : IsDigit(k)
           ops == IF make_args_ok
                  THEN (IF has_cmts THEN {"set_user_cmt"} ELSE {})
                           \cup {"save_user_cmts"} \cup RefreshOps(cb)
                  ELSE {}
       IN  /\ thr' = AfterExtract(t, out, cb.address)
           /\ queries' = QueriesAfter(t, out)
           /\ hostLog' = hostLog \cup Mutations(t, OpsUnlessReturned(kwargs, ops))
           /\ chain' = [chain EXCEPT ![t[1]] =
                           IF ~Truthy(kwargs)
                           THEN NoMapping(out)
                           ELSE IF make_args_ok
                                THEN [Printed("query_finished") EXCEPT !.data = kwargs]
                                ELSE [Printed("traceback") EXCEPT !.data = kwargs]]
    /\ UNCHANGED <<screen_ea, vdui, nact, act, marshaled, px>>

\* rename_callback, lines 274-305.  retry_kwargs carries the address under the
\* cursor at the time of the callback (line 283).  has_comment_and_replaced:
\* the function has a comment and a rename succeeded (line 297).
CbRename(t, has_comment_and_replaced) ==
    /\ thr[t].pc = "callback" /\ thr[t].cb.fn = "rename_callback"
    /\ LET cb == thr[t].cb
           out == ExtractTable[thr[t].response, cb.retries]
           names == out.ret
           ops == {"rename_lvar"}
                      \cup (IF has_comment_and_replaced THEN {"set_func_cmt"} ELSE {})
                      \cup RefreshOps(cb)
       IN  /\ thr' = AfterExtract(t, out, screen_ea)
           /\ queries' = QueriesAfter(t, out)
           /\ hostLog' = hostLog \cup Mutations(t, OpsUnlessReturned(names, ops))
           /\ chain' = [chain EXCEPT ![t[1]] =
                           IF ~Truthy(names)
                           THEN NoMapping(out)
                           ELSE [Printed("query_finished") EXCEPT !.data = names]]
    /\ UNCHANGED <<screen_ea, vdui, nact, act, marshaled, px>>

\* "return None" (lines 328, 339) and "if not kwargs: return" (lines 136-137,
\* 284-285) after a repair query was started
CbReturn(t) ==
    /\ thr[t].pc = "callback_return"
    /\ thr' = [thr EXCEPT ![t] = Finished]
    /\ UNCHANGED <<screen_ea, vdui, nact, act, hostLog, marshaled, queries, chain, px>>

\* the replies of the runs of SpecConc: one without a mapping, one with
ConcReplies == {ReplyNoBrace, ReplyNumbered}

ThreadStep(t) ==
    \/ \E text \in SampleReplies : ApiReply(t, text)
    \/ \E e \in ContextErrors : ApiContextError(t, e)
    \/ \E e \in OtherErrors : ApiOtherError(t, e)

CallbackStep(t) ==
    \/ CbComment(t)
    \/ \E has_cmts \in BOOLEAN : CbInline(t, has_cmts)
    \/ \E has_comment_and_replaced \in BOOLEAN : CbRename(t, has_comment_and_replaced)
    \/ CbReturn(t)

Next ==
    \/ \E kind \in Kinds : Activate(kind, MaxActions)
    \/ \E t \in Threads : ThreadStep(t)
    \/ \E t \in Threads : RunCallback(t)
    \/ \E t \in Threads : CallbackStep(t)

Spec == Init /\ [][Next]_vars

\* Every step but the user's: while a thread or a callback can take a step,
\* one is taken (the threads are scheduled, the API answers, the UI thread
\* serves its queue).
Progress ==
    \E t \in Threads : ThreadStep(t) \/ RunCallback(t) \/ CallbackStep(t)

\* The chain of queries of a single user action, run to its end.
NextChain ==
    \/ \E kind \in Kinds : Activate(kind, 1)
    \/ \E t \in Threads : ThreadStep(t)
    \/ \E t \in Threads : RunCallback(t)
    \/ \E t \in Threads : CallbackStep(t)

FairSpec == Init /\ [][NextChain]_vars /\ WF_vars(Progress)

\* Several user actions in flight together, every query answered by a reply.
NextConc ==
    \/ \E kind \in Kinds : Activate(kind, MaxConcurrent)
    \/ \E t \in Threads, text \in ConcReplies : ApiReply(t, text)
    \/ \E t \in Threads : RunCallback(t)
    \/ \E t \in Threads : CallbackStep(t)

SpecConc == Init /\ [][NextConc]_vars

(***************************************************************************)
(* Claims about the chain of queries of one action (Spec, FairSpec) and    *)
(* about actions in flight together (SpecConc).                            *)
(***************************************************************************)
RECURSIVE MarshaledUpTo(_, _)
MarshaledUpTo(a, r) ==
    IF r < 0 THEN 0 ELSE marshaled[<<a, r>>] + MarshaledUpTo(a, r - 1)

\* replies handed to execute_sync in the whole chain of action a
MarshaledBy(a) == MarshaledUpTo(a, RetryCap + 1)

HasNoBraces(text) == \A i \in 1..Len(text) : text[i] \notin {"{", "}"}

IsContextError(e) == e.t = "InvalidRequestError" /\ e.matches

\* C1 as stated: counting the whole chain of an action, JSON-repair retries
\* included, at most one model reply is marshalled through execute_sync.
CE_C1_OneReplyPerAction == \A a \in Actions : MarshaledBy(a) <= 1

\* C1 (amended): every query (one query_model_async call, with its
\* token-budget retries) marshals at most one reply; the chain of an action
\* marshals at most one reply per query it started, so at most 1 + 3, and
\* the chain of an explain action, which starts no repair query, at most one.
C1_OneReplyPerQuery ==
    \A a \in Actions :
        /\ \A r \in Retries : marshaled[<<a, r>>] <= 1
        /\ MarshaledBy(a) <= queries[a]
        /\ queries[a] <= 1 + 3
        /\ act[a].kind = "explain" => MarshaledBy(a) <= 1

\* a chain whose four queries each had their reply marshalled
W_C1_FourRepliesMarshaled == \E a \in Actions : MarshaledBy(a) = 4

\* C2: every mutation of host state is made by a callback running on the UI
\* thread, never by a query thread, and no two callbacks run at once.
C2_MutationsOnUiThread ==
    /\ \A m \in hostLog : m.by = "ui"
    /\ \A t \in Threads : InCallback(t) => thr[t].runner = "ui"
    /\ \A t1, t2 \in Threads : InCallback(t1) /\ InCallback(t2) => t1 = t2

\* host state was mutated by one action, a callback of another query is
\* running on the UI thread, and a further reply waits in execute_sync
W_C2_ReplyWaitsForUi ==
    /\ \E m \in hostLog : m.by = "ui"
    /\ \E t1, t2 \in Threads :
          /\ t1 # t2
          /\ InCallback(t1) /\ thr[t1].runner = "ui"
          /\ thr[t2].pc = "sync_wait"

\* C3 as stated: a context-length error is retried once, so a query_model
\* call sends a bounded number of requests (two) whatever the API answers.
CE_C3_RetriesOnce == \A t \in Threads : thr[t].pc = "request" => thr[t].nreq <= 1

\* C4 as stated: the error with hard limit 4000 and prompt tokens 3500 is
\* followed by a retry with max tokens 500.
CE_C4_Retry500 ==
    \A t \in Threads :
        (IsContextError(thr[t].e) /\ thr[t].e.group1 = Digits4000
                                  /\ thr[t].e.group2 = Digits3500)
        => (thr[t].pc = "request" /\ thr[t].max_tokens = 500)

\* C4 (amended): the budget is hard_limit - prompt_tokens and query_model
\* retries exactly when it is at least 750: for 4000 and 3500 the budget 500
\* is below the floor and the failure is reported without a retry, as for
\* 4000 and 3300 (700); for 4000 and 3250 the retry asks for 750.
C4_BudgetDecidesRetry ==
    \A t \in Threads :
        IsContextError(thr[t].e) =>
            LET e == thr[t].e
                budget == ParseInt(e.group1) - ParseInt(e.group2)
            IN  /\ thr[t].max_tokens = budget
                /\ budget >= 750 =>
                      thr[t].pc = "request" /\ thr[t].depth >= 1 /\ thr[t].printed = "reducing"
                /\ budget < 750 => thr[t].pc = "done" /\ thr[t].printed = "too_big"
                /\ (e.group1 = Digits4000 /\ e.group2 = Digits3500) =>
                      budget = 500 /\ thr[t].pc = "done"
                /\ (e.group1 = Digits4000 /\ e.group2 = Digits3300) =>
                      budget = 700 /\ thr[t].pc = "done"
                /\ (e.group1 = Digits4000 /\ e.group2 = Digits3250) =>
                      budget = 750 /\ thr[t].pc = "request"

\* the 4000/3500 error was the answer to the first request and the thread
\* ended with the failure report
W_C4_TooBigAt500 ==
    \E t \in Threads :
        /\ IsContextError(thr[t].e)
        /\ thr[t].e.group1 = Digits4000 /\ thr[t].e.group2 = Digits3500
        /\ thr[t].nreq = 1 /\ thr[t].pc = "done" /\ thr[t].printed = "too_big"

\* C6 as stated: every extraction of a reply without braces issues a repair
\* query (so none ends with the response dumped and no query issued).
CE_C6_AlwaysOneRepair ==
    \A a \in Actions : ~(chain[a].msg = "giving_up" /\ HasNoBraces(chain[a].dumped))

\* C6 (amended): for a reply without braces and a retry counter below 3, one
\* call issues exactly one repair query, bound to the same callback with the
\* counter incremented by one, and returns no mapping; with the counter at 3
\* it issues none and dumps the response.
C6_OneRepairBelowCap ==
    \A a \in Actions :
        /\ \A r \in Retries :
              (thr[<<a, r>>].pc = "callback_return" /\ HasNoBraces(thr[<<a, r>>].response))
              => /\ r < 3
                 /\ thr[<<a, r>>].ret = None
                 /\ queries[a] = r + 2
                 /\ thr[<<a, r + 1>>].pc # "none"
                 /\ thr[<<a, r + 1>>].cb.fn = thr[<<a, r>>].cb.fn
                 /\ thr[<<a, r + 1>>].cb.retries = thr[<<a, r>>].cb.retries + 1
        /\ (chain[a].msg = "giving_up" /\ HasNoBraces(chain[a].dumped))
              => /\ queries[a] = 4
                 /\ \A r \in Retries : thr[<<a, r>>].pc \in {"none", "done"}
                 /\ thr[<<a, 4>>].pc = "none"

\* the callback with counter 2 got a reply without braces and started the
\* third repair query
W_C6_ThirdRepairIssued ==
    \E a \in Actions :
        /\ thr[<<a, 2>>].pc = "callback_return" /\ HasNoBraces(thr[<<a, 2>>].response)
        /\ thr[<<a, 3>>].pc = "request"

\* the chain of action a has stopped: none of its threads is running
ChainOver(a) == act[a].kind # "none" /\ \A r \in Retries : thr[<<a, r>>].pc \in {"none", "done"}

ApiFailed(a) == chain[a].msg \in {"too_big", "could_not_complete", "general_exception"}

\* C7: the chain of a rename or auto-complete action issues at most 3 repair
\* queries (4 queries in all), its retry counter never exceeds 3, and it
\* comes to a stop; when it stops and no request failed, either a mapping was
\* extracted or the response was dumped.
C7_RepairChainBounded ==
    /\ [](\A a \in Actions :
            /\ queries[a] <= 4
            /\ \A r \in Retries : thr[<<a, r>>].pc # "none" => r <= 3
            /\ (ChainOver(a) /\ act[a].kind # "explain" /\ ~ApiFailed(a))
                  => \/ chain[a].data.t = "obj"
                     \/ chain[a].msg = "giving_up" /\ chain[a].dumped # <<>>)
    /\ \A a \in Actions : (act[a].kind \in {"comments", "rename"}) ~> ChainOver(a)

\* a chain that stopped by giving up after its fourth reply
W_C7_GaveUpAfterFour ==
    \E a \in Actions :
        ChainOver(a) /\ chain[a].msg = "giving_up" /\ MarshaledBy(a) = 4 /\ queries[a] = 4

(***************************************************************************)
(* extract_json_or_retry as a function of the reply text (SpecJson): the   *)
(* reply is any text over ReplyChars of at most MaxReplyLen characters,    *)
(* and Extract is the call extract_json_or_retry(response, 0, ...) of the  *)
(* callbacks' first run (rename_callback line 283, make_args line 140).    *)
(***************************************************************************)
ReplyChars == {"{", "}", "\"", ":", "a"}

NoOut == [t |-> "not_called"]

InitJson ==
    /\ InitMain /\ vdui
    /\ px = [fn |-> "extract_json_or_retry", response |-> <<>>, out |-> NoOut]

\* one more character of the model's reply
TypeReply(c) ==
    /\ px.out = NoOut
    /\ Len(px.response) < MaxReplyLen
    /\ px' = [px EXCEPT !.response = Append(@, c)]
    /\ UNCHANGED mainVars

Extract ==
    /\ px.out = NoOut
    /\ px' = [px EXCEPT !.out = extract_json_or_retry(px.response, 0)]
    /\ UNCHANGED mainVars

NextJson ==
    \/ \E c \in ReplyChars : TypeReply(c)
    \/ Extract

SpecJson == InitJson /\ [][NextJson]_vars

\* The slices [i, j) of text that are a well-formed JSON object with no
\* brace in the text around them.
ObjectsIn(text) ==
    {ij \in (0..Len(text)) \X (0..Len(text)) :
        /\ ij[1] < ij[2]
        /\ HasNoBraces(Slice(text, 0, ij[1]))
        /\ HasNoBraces(Slice(text, ij[2], Len(text)))
        /\ JsonLoads(Slice(text, ij[1], ij[2])).ok
        /\ JsonLoads(Slice(text, ij[1], ij[2])).val.t = "obj"}

\* C5 as stated: for a reply that contains a well-formed JSON object (a
\* nested object and a string value holding a closing brace included) with
\* brace-free text around it, extract_json_or_retry with retries = 0 returns
\* exactly the parsed mapping and issues no repair query.
CE_C5_WellFormedExtracted ==
    (px.fn = "extract_json_or_retry" /\ px.out # NoOut) =>
        \A ij \in ObjectsIn(px.response) :
            /\ px.out.ret = JsonLoads(Slice(px.response, ij[1], ij[2])).val
            /\ px.out.query = None

(***************************************************************************)
(* comment_callback, lines 222-246, as a function of the response and of   *)
(* the function comment it finds (SpecComment).                            *)
(***************************************************************************)
\* Longest text typed before, and after, the block of the existing comment.
MaxOutsideLen == 3

\* '----- ' + _("Comment generated by Gepetto") + ' -----', lines 233, 238
GepettoHeader ==
    <<"-", "-", "-", "-", "-", " ", "C", "o", "m", "m",
      "e", "n", "t", " ", "g", "e", "n", "e", "r", "a",
      "t", "e", "d", " ", "b", "y", " ", "G", "e", "p",
      "e", "t", "t", "o", " ", "-", "-", "-", "-", "-">>

\* '----------------------------------------', lines 233, 241
GepettoFooter == [i \in 1..Len(GepettoHeader) |-> "-"]

BlankLine == <<"\n", "\n">>

RECURSIVE LStrip(_)
LStrip(s) == IF s # <<>> /\ Head(s) \in Whitespace THEN LStrip(Tail(s)) ELSE s

RECURSIVE RStrip(_)
RStrip(s) ==
    IF s # <<>> /\ s[Len(s)] \in Whitespace THEN RStrip(SubSeq(s, 1, Len(s) - 1)) ELSE s

\* str.strip()
Strip(s) == LStrip(RStrip(s))

\* "\n".join(textwrap.wrap(response, 80, replace_whitespace=False)), line
\* 229, for a response without tabs that fits in one line of 80 columns, as
\* every response of the model does: the single line keeps its leading
\* whitespace and loses its trailing whitespace (no line at all when the
\* response is blank).
TextWrap(response) == RStrip(response)

\* first occurrence of p in s at or after offset from (0-based), or -1
FindFrom(s, p, from) ==
    LET later == {i \in Occurrences(s, p) : i >= from}
    IN  IF later = {} THEN -1 ELSE SetMin(later)

\* the mutant of RemoveBlocks: the comment as it is found
KeepBlocks(comment) == comment

\* re.sub(header + '.*?' + footer, "", comment, flags=re.DOTALL), lines
\* 233-236: every leftmost block from a header to the nearest footer after
\* it is removed.
RECURSIVE RemoveBlocks(_)
RemoveBlocks(comment) ==
    LET h == Find(comment, GepettoHeader)
        f == IF h < 0 THEN -1 ELSE FindFrom(comment, GepettoFooter, h + Len(GepettoHeader))
    IN  IF f < 0
        THEN comment
        ELSE Slice(comment, 0, h)
                \o RemoveBlocks(Slice(comment, f + Len(GepettoFooter), Len(comment)))

\* the text handed to idc.set_func_cmt, lines 238-242
KeepOutsideNoStrip(comment) == RemoveBlocks(comment)

KeepOutside(comment) == Strip(RemoveBlocks(comment))

NewFuncCmt(response, comment) ==
    GepettoHeader \o BlankLine \o Strip(TextWrap(response)) \o BlankLine
        \o GepettoFooter \o BlankLine \o KeepOutside(comment)

OutsideChars == {"u", " ", "\n"}

PriorExplanation == <<"o", "l", "d">>

CommentResponses == {<<"n", "e", "w">>, <<" ", "n", "\n", "e", " ">>}

\* a comment as comment_callback leaves it: the block, then the rest
ExistingComment(before, after) ==
    before \o GepettoHeader \o BlankLine \o PriorExplanation \o BlankLine
           \o GepettoFooter \o after

InitComment ==
    /\ InitMain /\ vdui
    /\ px = [fn |-> "comment_callback", before |-> <<>>, after |-> <<>>,
             response |-> <<>>, called |-> FALSE, func_cmt |-> <<>>]

\* the user's text before the block of the existing comment
TypeBefore(c) ==
    /\ ~px.called /\ px.after = <<>>
    /\ Len(px.before) < MaxOutsideLen
    /\ px' = [px EXCEPT !.before = Append(@, c)]
    /\ UNCHANGED mainVars

\* the user's text after the block of the existing comment
TypeAfter(c) ==
    /\ ~px.called
    /\ Len(px.after) < MaxOutsideLen
    /\ px' = [px EXCEPT !.after = Append(@, c)]
    /\ UNCHANGED mainVars

comment_callback(response) ==
    /\ ~px.called
    /\ px' = [px EXCEPT !.called = TRUE, !.response = response,
                        !.func_cmt = NewFuncCmt(response, ExistingComment(px.before, px.after))]
    /\ UNCHANGED mainVars

NextComment ==
    \/ \E c \in OutsideChars : TypeBefore(c)
    \/ \E c \in OutsideChars : TypeAfter(c)
    \/ \E response \in CommentResponses : comment_callback(response)

SpecComment == InitComment /\ [][NextComment]_vars

\* the block comment_callback writes for a response
NewBlockOf(response) ==
    GepettoHeader \o BlankLine \o Strip(response) \o BlankLine \o GepettoFooter

\* t is s without some leading and some trailing whitespace, and t itself
\* neither starts nor ends with whitespace
IsCoreOf(t, s) ==
    /\ \E i \in 0..Len(s) : \E j \in i..Len(s) :
          /\ t = SubSeq(s, i + 1, j)
          /\ \A k \in (1..i) \cup ((j + 1)..Len(s)) : s[k] \in Whitespace
    /\ t # <<>> => (t[1] \notin Whitespace /\ t[Len(t)] \notin Whitespace)

\* C8 as stated: when the existing comment holds a Gepetto block and user
\* text outside it, the new comment is the old one with only the block
\* replaced: the text before the block and the text after it stand where
\* they stood, byte for byte.
CE_C8_OutsideByteForByte ==
    (px.fn = "comment_callback" /\ px.called /\ px.before \o px.after # <<>>) =>
        px.func_cmt = px.before \o NewBlockOf(px.response) \o px.after

\* C8 (amended): the new comment is the new block, a blank line, and then
\* the outside text (the text before the old block joined to the text after
\* it) without its leading and trailing whitespace; the outside text is
\* kept byte for byte only when nothing stood before the block and the text
\* after it is a blank line followed by text with no whitespace at its ends.
C8_OutsideStrippedAfterBlock ==
    (px.fn = "comment_callback" /\ px.called) =>
        LET outside == px.before \o px.after
            kept == SubSeq(px.func_cmt, Len(NewBlockOf(px.response)) + 3, Len(px.func_cmt))
        IN  /\ px.func_cmt = NewBlockOf(px.response) \o BlankLine \o kept
            /\ IsCoreOf(kept, outside)
            /\ (px.before = <<>> /\ px.after = BlankLine \o kept)
                  <=> px.func_cmt = px.before \o NewBlockOf(px.response) \o px.after

\* comment_callback ran on a comment with text before the block and text
\* with whitespace at its end after the block
W_C8_TextOnBothSides ==
    /\ px.fn = "comment_callback" /\ px.called
    /\ Strip(px.before) # <<>>
    /\ Strip(px.after) # <<>> /\ Strip(px.after) # px.after

(***************************************************************************)
(* rename_callback, lines 287-305, as a function of the mapping it got, of *)
(* the renames the decompiler accepts and of the function comment          *)
(* (SpecRename).  A mapping is the sequence of its (old name, new name)    *)
(* pairs in the order of the JSON object, which is the order a Python dict *)
(* iterates in; names are identifiers.                                     *)
(***************************************************************************)
\* Longest function comment typed in SpecRename.
MaxCommentLen == 4

Letters ==
    {"a", "b", "c", "d", "e", "f", "g", "h", "i", "j", "k", "l", "m",
     "n", "o", "p", "q", "r", "s", "t", "u", "v", "w", "x", "y", "z",
     "A", "B", "C", "D", "E", "F", "G", "H", "I", "J", "K", "L", "M",
     "N", "O", "P", "Q", "R", "S", "T", "U", "V", "W", "X", "Y", "Z"}

\* the characters \w matches
WordChars == Letters \cup Digits \cup {"_"}

\* \b at offset i of s: a word character on exactly one side
WordBoundary(s, i) ==
    (i > 0 /\ s[i] \in WordChars) # (i < Len(s) /\ s[i + 1] \in WordChars)

\* re.sub(r'\b%s\b' % n, new, s) from offset i on, line 299
RECURSIVE WordSubFrom(_, _, _, _)
WordSubFrom(n, new, s, i) ==
    IF i >= Len(s)
    THEN <<>>
    ELSE IF StartsAt(s, n, i) /\ WordBoundary(s, i) /\ WordBoundary(s, i + Len(n))
         THEN new \o WordSubFrom(n, new, s, i + Len(n))
         ELSE <<s[i + 1]>> \o WordSubFrom(n, new, s, i + 1)

WordSub(n, new, s) == WordSubFrom(n, new, s, 0)

\* lines 290-293 with every rename_lvar result ignored
ReplacedAll(names, ok) == names

\* lines 290-293: the pairs whose rename_lvar call returned true, in order
Replaced(names, ok) == SelectSeq(names, LAMBDA pair : pair[1] \in ok)

\* lines 298-299: one re.sub per replaced name, each on the result of the last
RECURSIVE SubstituteAll(_, _)
SubstituteAll(replaced, comment) ==
    IF replaced = <<>>
    THEN comment
    ELSE SubstituteAll(Tail(replaced), WordSub(Head(replaced)[1], Head(replaced)[2], comment))

\* lines 287-305 for a non-empty mapping: the comment of the function after
\* the call and the count the message reports
ApplyRenames(names, ok, comment) ==
    LET replaced == Replaced(names, ok)
        set == comment # <<>> /\ Len(replaced) > 0
    IN  [func_cmt |-> IF set THEN SubstituteAll(replaced, comment) ELSE comment,
         set_func_cmt |-> set,
         reported |-> Len(replaced)]

OldNames == {<<"a">>, <<"b">>}

NewNames == {<<"a">>, <<"c">>, <<"a", "b">>}

CommentChars == {"a", "b", " "}

\* the mappings of the model: one or two pairs with distinct old names
Mappings ==
    {<<<<n, v>>>> : n \in OldNames, v \in NewNames}
        \cup {pairs \in (OldNames \X NewNames) \X (OldNames \X NewNames) :
                pairs[1][1] # pairs[2][1]}

KeysOf(names) == {names[i][1] : i \in 1..Len(names)}

InitRename ==
    /\ InitMain /\ vdui
    /\ \E names \in Mappings :
          px = [fn |-> "rename_callback", names |-> names, ok |-> {}, comment |-> <<>>,
                called |-> FALSE, out |-> ApplyRenames(<<>>, {}, <<>>)]

\* one more character of the function comment that is there before the call
TypeComment(c) ==
    /\ px.fn = "rename_callback" /\ ~px.called
    /\ Len(px.comment) < MaxCommentLen
    /\ px' = [px EXCEPT !.comment = Append(@, c)]
    /\ UNCHANGED mainVars

\* rename_callback once extract_json_or_retry returned px.names; ok is the
\* set of old names for which rename_lvar returns true
RenameLvars(ok) ==
    /\ px.fn = "rename_callback" /\ ~px.called
    /\ px' = [px EXCEPT !.called = TRUE, !.ok = ok,
                        !.out = ApplyRenames(px.names, ok, px.comment)]
    /\ UNCHANGED mainVars

NextRename ==
    \/ \E c \in CommentChars : TypeComment(c)
    \/ px.fn = "rename_callback" /\ \E ok \in SUBSET KeysOf(px.names) : RenameLvars(ok)

SpecRename == InitRename /\ [][NextRename]_vars

RECURSIVE WordEnd(_, _)
WordEnd(s, i) == IF i <= Len(s) /\ s[i] \in WordChars THEN WordEnd(s, i + 1) ELSE i

\* s cut into its identifiers (maximal runs of word characters) and the
\* single characters between them, from the 1-based position i on
RECURSIVE TokensFrom(_, _)
TokensFrom(s, i) ==
    IF i > Len(s)
    THEN <<>>
    ELSE IF s[i] \in WordChars
         THEN <<SubSeq(s, i, WordEnd(s, i) - 1)>> \o TokensFrom(s, WordEnd(s, i))
         ELSE <<<<s[i]>>>> \o TokensFrom(s, i + 1)

Mentions(s) == {TokensFrom(s, 1)[k] : k \in 1..Len(TokensFrom(s, 1))}

\* C9: after rename_callback applied a mapping of which some renames failed
\* and some succeeded, every mention in the comment of a name whose rename
\* failed (and everything else that is not a successfully renamed name) is
\* unchanged, every mention of a successfully renamed name is substituted
\* (by its new name, unless that new name is itself renamed successfully by
\* a later pair), the comment is written only if it was non-empty and a
\* rename succeeded, and the reported count is the number of successes.
C9_OnlySuccessfulSubstituted ==
    (px.fn = "rename_callback" /\ px.called) =>
        LET names == px.names
            old == TokensFrom(px.comment, 1)
            new == TokensFrom(px.out.func_cmt, 1)
            succeeded == {i \in 1..Len(names) : names[i][1] \in px.ok}
            PairOf(tok) == CHOOSE i \in succeeded : names[i][1] = tok
            RenamedAgain(i) == \E j \in succeeded : j > i /\ names[j][1] = names[i][2]
        IN  /\ px.out.reported = Cardinality(px.ok)
            /\ px.out.set_func_cmt <=> (px.comment # <<>> /\ px.ok # {})
            /\ Len(new) = Len(old)
            /\ \A k \in 1..Len(old) :
                  /\ old[k] \notin px.ok => new[k] = old[k]
                  /\ old[k] \in px.ok => new[k] \in {names[i][2] : i \in succeeded}
                  /\ (old[k] \in px.ok /\ ~RenamedAgain(PairOf(old[k])))
                        => new[k] = names[PairOf(old[k])][2]

\* a mapping of two pairs of which one rename failed and one succeeded, on a
\* comment that mentions both old names and was changed by the call
W_C9_OneFailedOneSucceeded ==
    /\ px.fn = "rename_callback" /\ px.called
    /\ Len(px.names) = 2 /\ Cardinality(px.ok) = 1
    /\ KeysOf(px.names) \subseteq Mentions(px.comment)
    /\ px.out.set_func_cmt /\ px.out.func_cmt # px.comment

(***************************************************************************)
(* shrink_decompilation, lines 160-187, as a function of the decompilation *)
(* text and of the window (SpecShrink).                                    *)
(***************************************************************************)
\* Most lines in the body of the decompiled function.
MaxLines == 4

\* Largest window handed to shrink_decompilation.
MaxWindow == 4

\* The 0-based offset just after a match of \{[0-9A-Za-z_]*\} that starts at
\* the 0-based offset i of s, or -1 when none starts there.
PlaceholderEnd(s, i) ==
    IF i < Len(s) /\ s[i + 1] = "{"
    THEN LET e == WordEnd(s, i + 2)
         IN  IF e <= Len(s) /\ s[e] = "}" THEN e ELSE -1
    ELSE -1

PlaceholderStarts(s) == {i \in 0..Len(s) : PlaceholderEnd(s, i) >= 0}

\* the placeholders .*(\{[0-9A-Za-z_]*\}) can end with when the match starts
\* at offset q: the dot does not match a newline, so those with no newline
\* between q and them
ReachedFrom(s, q) ==
    {i \in PlaceholderStarts(s) :
        i >= q /\ \A k \in (q + 1)..i : s[k] # "\n"}

\* line 169: start_match.start(), or 0
ShrinkStart(s) == IF PlaceholderStarts(s) = {} THEN 0 ELSE SetMin(PlaceholderStarts(s))

\* line 170: end_match.end() of re.search(r'.*(\{[0-9A-Za-z_]*\})', s), the
\* leftmost match with .* as long as it can be, or len(s)
ShrinkEnd(s) ==
    IF PlaceholderStarts(s) = {}
    THEN Len(s)
    ELSE LET q == SetMin({k \in 0..Len(s) : ReachedFrom(s, k) # {}})
         IN  PlaceholderEnd(s, SetMax(ReachedFrom(s, q)))

\* s[:k], k possibly negative
SliceTo(s, k) == IF k < 0 THEN Slice(s, 0, Max(0, Len(s) + k)) ELSE Slice(s, 0, k)

NewLine == <<"\n">>

\* s.split('\n', 1)[-1]
AfterFirstNewline(s) ==
    IF Find(s, NewLine) < 0 THEN s ELSE Slice(s, Find(s, NewLine) + 1, Len(s))

\* s.rsplit('\n', 1)[0]
BeforeLastNewline(s) ==
    IF Occurrences(s, NewLine) = {} THEN s ELSE Slice(s, 0, SetMax(Occurrences(s, NewLine)))

Ellipsis == <<"/", "/", " ", ".", ".", ".">>

shrink_decompilation(decompilation, window) ==
    LET start == ShrinkStart(decompilation)
        end == ShrinkEnd(decompilation)
        func_content_start == Find(decompilation, <<"\n", "{", "\n">>) + 2
        cut == start - window > 0
        sw == IF cut THEN Max(func_content_start, start - window) ELSE 0
        title == Slice(decompilation, 0, func_content_start)
        content == AfterFirstNewline(Slice(decompilation, sw, Len(decompilation)))
        text == IF cut THEN title \o NewLine \o Ellipsis \o NewLine \o content
                       ELSE decompilation
    IN  IF start > 0
        THEN IF end + window - sw < Len(text) - 1
             THEN BeforeLastNewline(SliceTo(text, end + window - sw))
                      \o NewLine \o Ellipsis \o NewLine \o <<"}">>
             ELSE text
        ELSE decompilation

\* the lines a function body of the model is made of: a statement and two
\* comments that hold a format placeholder
BodyLines == {<<"x", ";">>, <<"/", "{", "a", "}">>, <<"/", "{", "b", "}">>}

Title == <<"f">>

RECURSIVE JoinLines(_)
JoinLines(lines) ==
    IF lines = <<>> THEN <<>> ELSE Head(lines) \o NewLine \o JoinLines(Tail(lines))

\* the text hex-rays gives: the title, the opening brace line, the body, the
\* closing brace
Decompilation(lines) == Title \o <<"\n", "{", "\n">> \o JoinLines(lines) \o <<"}">>

Windows == 1..MaxWindow

InitShrink ==
    /\ InitMain /\ vdui
    /\ px = [fn |-> "shrink_decompilation", lines |-> <<>>, window |-> 0,
             called |-> FALSE, out |-> <<>>]

\* one more line of the decompiled function
AddLine(line) ==
    /\ ~px.called
    /\ Len(px.lines) < MaxLines
    /\ px' = [px EXCEPT !.lines = Append(@, line)]
    /\ UNCHANGED mainVars

Shrink(window) ==
    /\ ~px.called
    /\ px' = [px EXCEPT !.called = TRUE, !.window = window,
                        !.out = shrink_decompilation(Decompilation(px.lines), window)]
    /\ UNCHANGED mainVars

NextShrink ==
    \/ \E line \in BodyLines : AddLine(line)
    \/ \E window \in Windows : Shrink(window)

SpecShrink == InitShrink /\ [][NextShrink]_vars

\* s.split('\n')
RECURSIVE LinesOf(_)
LinesOf(s) ==
    IF Find(s, NewLine) < 0
    THEN {s}
    ELSE {Slice(s, 0, Find(s, NewLine))} \cup LinesOf(AfterFirstNewline(s))

HasPlaceholder(s) == PlaceholderStarts(s) # {}

\* C10 as stated: for a decompilation with placeholders on several lines,
\* the end of the window is the end of the last placeholder of the whole
\* text, every line that holds a placeholder is a line of the output, and so
\* is the opening brace line of the function.
CE_C10_WindowSpansAllPlaceholders ==
    (px.fn = "shrink_decompilation" /\ px.called
        /\ Cardinality({l \in 1..Len(px.lines) : HasPlaceholder(px.lines[l])}) >= 2) =>
        LET text == Decompilation(px.lines)
        IN  /\ ShrinkEnd(text) = PlaceholderEnd(text, SetMax(PlaceholderStarts(text)))
            /\ \A l \in 1..Len(px.lines) :
                  HasPlaceholder(px.lines[l]) => px.lines[l] \in LinesOf(px.out)
            /\ <<"{">> \in LinesOf(px.out)

\* C11 as stated, in its first part: for a decompilation with exactly one
\* placeholder and any window, the output holds the opening brace line of
\* the function and the line with the placeholder.
CE_C11_OnePlaceholderKept ==
    (px.fn = "shrink_decompilation" /\ px.called
        /\ Cardinality(PlaceholderStarts(Decompilation(px.lines))) = 1) =>
        /\ <<"{">> \in LinesOf(px.out)
        /\ \A l \in 1..Len(px.lines) :
              HasPlaceholder(px.lines[l]) => px.lines[l] \in LinesOf(px.out)

(***************************************************************************)
(* inline_comments_callback, lines 139-156, as a function of the mapping   *)
(* extract_json_or_retry returned and of the user comments of the function *)
(* (SpecBatch).  The mapping is the tagged object json.loads gives; its    *)
(* values are strings.                                                     *)
(***************************************************************************)
\* Most user comments of the decompiled function.
MaxCmts == 3

\* str(i) for a small i
RECURSIVE IntToStr(_)
IntToStr(i) ==
    LET digit == <<"0", "1", "2", "3", "4", "5", "6", "7", "8", "9">>
    IN  IF i < 10 THEN <<digit[i + 1]>> ELSE IntToStr(i \div 10) \o <<digit[(i % 10) + 1]>>

\* line 140: [kwargs.get(str(i)) for i in range(max(map(int, filter(
\* str.isdigit, kwargs.keys()))) + 1)], or a ValueError from max() when no
\* key is a number (raised is TRUE)
make_args(kwargs) ==
    LET numeric == {k \in DOMAIN kwargs.m : IsDigit(k)}
    IN  IF numeric = {}
        THEN [raised |-> TRUE, args |-> <<>>]
        ELSE [raised |-> FALSE,
              args |-> [i \in 1..(SetMax({ParseInt(k) : k \in numeric}) + 1) |->
                           IF IntToStr(i - 1) \in DOMAIN kwargs.m
                           THEN kwargs.m[IntToStr(i - 1)] ELSE None]]

\* str() of a format argument
StrOf(val) == IF val.t = "str" THEN val.s ELSE <<"N", "o", "n", "e">>

FormatFail == [ok |-> FALSE, text |-> <<>>]

\* cmt.format(*args, **kwargs) from the 1-based position i on, line 146, for
\* comments without conversions, format specs, attributes and indexes.
\* next is the index automatic numbering gives to the next {}: -1 once a
\* field was numbered by hand, -2 while no field was numbered.  A result
\* that is not ok stands for the exception format raises.
RECURSIVE FormatFrom(_, _, _, _, _)
FormatFrom(cmt, i, next, args, kwargs) ==
    IF i > Len(cmt)
    THEN [ok |-> TRUE, text |-> <<>>]
    ELSE IF cmt[i] \notin {"{", "}"}
    THEN LET rest == FormatFrom(cmt, i + 1, next, args, kwargs)
         IN  IF rest.ok THEN [ok |-> TRUE, text |-> <<cmt[i]>> \o rest.text] ELSE FormatFail
    ELSE IF i < Len(cmt) /\ cmt[i + 1] = cmt[i]
    THEN LET rest == FormatFrom(cmt, i + 2, next, args, kwargs)
         IN  IF rest.ok THEN [ok |-> TRUE, text |-> <<cmt[i]>> \o rest.text] ELSE FormatFail
    ELSE IF cmt[i] = "}"
    THEN FormatFail
    ELSE LET closes == {j \in (i + 1)..Len(cmt) : cmt[j] = "}"}
         IN  IF closes = {}
             THEN FormatFail
             ELSE LET j == SetMin(closes)
                      name == SubSeq(cmt, i + 1, j - 1)
                      auto == name = <<>>
                      index == IF auto THEN Max(next, 0) ELSE ParseInt(name)
                      positional == auto \/ IsDigit(name)
                      mixed == (auto /\ next = -1) \/ (~auto /\ IsDigit(name) /\ next >= 0)
                      found == IF positional THEN index < Len(args)
                                             ELSE name \in DOMAIN kwargs.m
                      after == IF auto THEN index + 1
                               ELSE IF IsDigit(name) THEN -1 ELSE next
                  IN  IF (\E k \in 1..Len(name) : name[k] = "{") \/ mixed \/ ~found
                      THEN FormatFail
                      ELSE LET val == IF positional THEN args[index + 1] ELSE kwargs.m[name]
                               rest == FormatFrom(cmt, j + 1, after, args, kwargs)
                           IN  IF rest.ok
                               THEN [ok |-> TRUE, text |-> StrOf(val) \o rest.text]
                               ELSE FormatFail

Format(cmt, args, kwargs) == FormatFrom(cmt, 1, -2, args, kwargs)

\* lines 143-149 when the loop stops at the first comment whose format raises
RECURSIVE RewriteUntilFailure(_, _, _)
RewriteUntilFailure(user_cmts, args, kwargs) ==
    IF user_cmts = <<>>
    THEN <<>>
    ELSE IF Format(Head(user_cmts), args, kwargs).ok
         THEN <<Format(Head(user_cmts), args, kwargs).text>>
                  \o RewriteUntilFailure(Tail(user_cmts), args, kwargs)
         ELSE user_cmts

\* lines 143-149: every comment is formatted and set; one whose format
\* raises is left as it is (the bare except)
RewriteEach(user_cmts, args, kwargs) ==
    [k \in 1..Len(user_cmts) |->
        IF Format(user_cmts[k], args, kwargs).ok
        THEN Format(user_cmts[k], args, kwargs).text
        ELSE user_cmts[k]]

\* lines 139-156 for a non-empty mapping: the user comments after the call,
\* whether make_args raised (the callback is left at line 141), and whether
\* save_user_cmts, refresh_view and the final print were reached
ApplyComments(kwargs, user_cmts, view) ==
    LET made == make_args(kwargs)
    IN  IF made.raised
        THEN [user_cmts |-> user_cmts, raised |-> TRUE, saved |-> FALSE,
              refreshed |-> FALSE, finished |-> FALSE]
        ELSE [user_cmts |-> RewriteEach(user_cmts, made.args, kwargs), raised |-> FALSE,
              saved |-> TRUE, refreshed |-> view, finished |-> TRUE]

ReplyNumberedAndNamed ==
    <<"{", "\"", "0", "\"", ":", "\"", "b", "\"", ",",
           "\"", "a", "\"", ":", "\"", "c", "\"", "}">>

ReplySecondOnly == <<"{", "\"", "1", "\"", ":", "\"", "b", "\"", "}">>

\* the mappings of SpecBatch: what json.loads gives for four replies
InlineMappings ==
    {JsonLoads(r).val : r \in {ReplyNamed, ReplyNumbered, ReplyNumberedAndNamed, ReplySecondOnly}}

\* the user comments of SpecBatch: with a positional, a named, an automatic
\* field, with a field the mappings have no value for, with a lone brace
SampleCmts ==
    {<<"{", "0", "}">>, <<"{", "a", "}">>, <<"x", "{", "1", "}">>, <<"{", "}">>,
     <<"{", "b", "}">>, <<"{">>}

InitInline ==
    /\ InitMain /\ vdui
    /\ \E kwargs \in InlineMappings, view \in BOOLEAN :
          px = [fn |-> "inline_comments_callback", kwargs |-> kwargs, view |-> view,
                user_cmts |-> <<>>, called |-> FALSE,
                out |-> ApplyComments(kwargs, <<>>, view)]

\* one more user comment in decompiled_func.user_cmts
AddCmt(cmt) ==
    /\ px.fn = "inline_comments_callback" /\ ~px.called
    /\ Len(px.user_cmts) < MaxCmts
    /\ px' = [px EXCEPT !.user_cmts = Append(@, cmt)]
    /\ UNCHANGED mainVars

\* inline_comments_callback once extract_json_or_retry returned px.kwargs
inline_comments_callback ==
    /\ px.fn = "inline_comments_callback" /\ ~px.called
    /\ px' = [px EXCEPT !.called = TRUE,
                        !.out = ApplyComments(px.kwargs, px.user_cmts, px.view)]
    /\ UNCHANGED mainVars

NextInline ==
    \/ \E cmt \in SampleCmts : AddCmt(cmt)
    \/ inline_comments_callback

\* the two callbacks that apply a batch, each on its own inputs
SpecBatch == (InitInline \/ InitRename) /\ [][NextInline \/ NextRename]_vars

\* C12: in inline_comments_callback a comment whose substitution raises is
\* left as it is and every other comment, before it or after it, is still
\* rewritten, and save_user_cmts, the refresh of the view and the final
\* print still run; in rename_callback a pair whose rename_lvar returns
\* false is skipped and every other pair is still renamed and counted, and
\* the comment update (with the mentions of a name renamed after a failed
\* pair substituted) still runs.
C12_ItemFailureDoesNotAbort ==
    /\ (px.fn = "inline_comments_callback" /\ px.called /\ ~px.out.raised) =>
          LET args == make_args(px.kwargs).args
          IN  /\ Len(px.out.user_cmts) = Len(px.user_cmts)
              /\ \A k \in 1..Len(px.user_cmts) :
                    LET f == Format(px.user_cmts[k], args, px.kwargs)
                    IN  px.out.user_cmts[k] = IF f.ok THEN f.text ELSE px.user_cmts[k]
              /\ px.out.saved /\ px.out.finished /\ (px.out.refreshed <=> px.view)
    /\ (px.fn = "rename_callback" /\ px.called) =>
          LET old == TokensFrom(px.comment, 1)
              new == TokensFrom(px.out.func_cmt, 1)
          IN  /\ px.out.reported = Cardinality(px.ok)
              /\ px.out.set_func_cmt <=> (px.comment # <<>> /\ px.ok # {})
              /\ (Len(px.names) = 2 /\ px.ok = {px.names[2][1]}) =>
                    /\ Len(new) = Len(old)
                    /\ \A k \in 1..Len(old) :
                          new[k] = IF old[k] = px.names[2][1] THEN px.names[2][2] ELSE old[k]

\* inline_comments_callback ran on comments of which one raised in format
\* and a later one was rewritten
W_C12_RewrittenAfterFailure ==
    /\ px.fn = "inline_comments_callback" /\ px.called /\ px.out.saved
    /\ \E k, l \in 1..Len(px.user_cmts) :
          /\ k < l
          /\ ~Format(px.user_cmts[k], make_args(px.kwargs).args, px.kwargs).ok
          /\ px.out.user_cmts[l] # px.user_cmts[l]

(***************************************************************************)
(* More claims about the query threads and the callbacks (Spec).           *)
(***************************************************************************)
\* C13: once the API call of a thread failed with an error that is not a
\* recognised context-length error, query_model has reported it (the
\* could-not-complete message, or the general-exception message for an
\* exception that is no OpenAIError), the callback of the thread is never
\* handed to execute_sync nor run, and the thread is over: it sends no
\* further request and takes no further step.
C13_OtherErrorReportedNoRetry ==
    /\ [](\A t \in Threads :
            thr[t].e \in OtherErrors =>
                /\ thr[t].pc = "done"
                /\ thr[t].printed = IF thr[t].e.t = "Exception"
                                    THEN "general_exception" ELSE "could_not_complete"
                /\ chain[t[1]] = Printed(thr[t].printed)
                /\ marshaled[t] = 0
                /\ thr[t].response = <<>>)
    /\ [][\A t \in Threads :
            thr[t].e \in OtherErrors =>
                thr'[t] = thr[t] /\ marshaled'[t] = marshaled[t]]_vars

\* the request of a repair query, sent again after a context-length error,
\* failed with an exception that is no OpenAIError
W_C13_RepairQueryFailed ==
    \E t \in Threads :
        /\ t[2] >= 1 /\ thr[t].depth >= 1
        /\ thr[t].e \in OtherErrors /\ thr[t].e.t = "Exception"
        /\ thr[t].pc = "done"

(***************************************************************************)
(* GepettoPlugin.init and term (lines 59-109) and the context-menu hook    *)
(* (lines 113-119) against the host's registry of actions, its menu and    *)
(* its UI hooks (SpecLoad).                                                *)
(***************************************************************************)
\* Times the host loads the plugin in one run of SpecLoad.
MaxLoads == 2

\* Context-menu popups opened in one run of SpecLoad.
MaxPopups == 4

\* explain_action_name, comments_action_name, rename_action_name
ActionNames == {"gepetto:explain_function", "gepetto:auto_complete_comments", "gepetto:rename_function"}

WidgetTypes == {"BWN_PSEUDOCODE", "BWN_DISASM"}

InitLoad ==
    /\ InitMain /\ vdui
    /\ px = [fn |-> "GepettoPlugin", state |-> "unloaded", loads |-> 0,
             registered |-> {}, menu |-> {}, hooked |-> FALSE, popups |-> <<>>]

\* init, lines 59-98.  init_hexrays_plugin is what
\* ida_hexrays.init_hexrays_plugin() returns.
init(init_hexrays_plugin) ==
    /\ px.fn = "GepettoPlugin"
    /\ px.state \in {"unloaded", "PLUGIN_SKIP", "unloaded_after_term"}
    /\ px.loads < MaxLoads
    /\ px' = IF ~init_hexrays_plugin
             THEN [px EXCEPT !.state = "PLUGIN_SKIP", !.loads = @ + 1]
             ELSE [px EXCEPT !.state = "PLUGIN_KEEP", !.loads = @ + 1,
                             !.registered = @ \cup ActionNames,
                             !.menu = @ \cup ActionNames,
                             !.hooked = TRUE]
    /\ UNCHANGED mainVars

\* the action names term hands to idaapi.unregister_action: none
UnregisteredByTerm == {}

\* term, lines 103-109: the three actions are detached from the menu and the
\* hook, which init set in self.menu, is removed
term ==
    /\ px.fn = "GepettoPlugin"
    /\ px.state = "PLUGIN_KEEP"
    /\ px' = [px EXCEPT !.state = "unloaded_after_term",
                        !.menu = @ \ ActionNames,
                        !.registered = @ \ UnregisteredByTerm,
                        !.hooked = FALSE]
    /\ UNCHANGED mainVars

\* ContextMenuHooks.finish_populating_widget_popup, lines 113-119, which the
\* host calls while the hook is installed: in a pseudocode view the three
\* actions are attached to the popup
finish_populating_widget_popup(widget_type) ==
    /\ px.fn = "GepettoPlugin"
    /\ px.hooked
    /\ Len(px.popups) < MaxPopups
    /\ px' = [px EXCEPT !.popups =
                 Append(@, [widget_type |-> widget_type,
                            actions |-> IF widget_type = "BWN_PSEUDOCODE"
                                        THEN px.registered \cap ActionNames ELSE {}])]
    /\ UNCHANGED mainVars

NextLoad ==
    \/ \E init_hexrays_plugin \in BOOLEAN : init(init_hexrays_plugin)
    \/ term
    \/ \E widget_type \in WidgetTypes : finish_populating_widget_popup(widget_type)

SpecLoad == InitLoad /\ [][NextLoad]_vars

\* C14 as stated: after a load that returned PLUGIN_KEEP and the unload that
\* follows it, none of the three actions is registered with the host or
\* attached to its menu and the hook is removed; after a first load that
\* returned PLUGIN_SKIP nothing is registered, attached or hooked.
CE_C14_UnloadLeavesNothing ==
    px.fn = "GepettoPlugin" =>
        /\ px.state = "unloaded_after_term" =>
              (px.registered = {} /\ px.menu = {} /\ ~px.hooked)
        /\ (px.state = "PLUGIN_SKIP" /\ px.loads = 1) =>
              (px.registered = {} /\ px.menu = {} /\ ~px.hooked)

\* C15 as stated: every request query_model sends carries the max_tokens it
\* was called with, so the request of a token-budget retry carries the
\* recomputed budget hard_limit - prompt_tokens.
CE_C15_RequestCarriesMaxTokens ==
    \A t \in Threads :
        thr[t].pc = "request" =>
            /\ "max_tokens" \in DOMAIN thr[t].sent
            /\ thr[t].sent.max_tokens = thr[t].max_tokens

\* the names between an opening brace and the closing brace that follows it
FieldsOf(cmt) ==
    {SubSeq(cmt, ij[1] + 1, ij[2] - 1) : ij \in {p \in (1..Len(cmt)) \X (1..Len(cmt)) :
        /\ p[1] < p[2] /\ cmt[p[1]] = "{" /\ cmt[p[2]] = "}"
        /\ \A k \in (p[1] + 1)..(p[2] - 1) : cmt[k] \notin {"{", "}"}}}

\* a positional argument for every number that is a key of the mapping
ArgsByNumber(kwargs) ==
    [i \in 1..10 |-> IF IntToStr(i - 1) \in DOMAIN kwargs.m
                     THEN kwargs.m[IntToStr(i - 1)] ELSE None]

\* C16 as stated: for any non-empty mapping, with numeric keys or without,
\* every user comment whose placeholders are all keys of the mapping is
\* rewritten with the placeholders substituted, the comments are saved and
\* the view, if there is one, is refreshed.
CE_C16_AnyMappingSubstituted ==
    (px.fn = "inline_comments_callback" /\ px.called) =>
        /\ px.out.saved /\ (px.out.refreshed <=> px.view)
        /\ \A k \in 1..Len(px.user_cmts) :
              LET cmt == px.user_cmts[k]
                  f == Format(cmt, ArgsByNumber(px.kwargs), px.kwargs)
              IN  (f.ok /\ FieldsOf(cmt) # {} /\ FieldsOf(cmt) \subseteq DOMAIN px.kwargs.m)
                      => px.out.user_cmts[k] = f.text


\* C17: the comment rewrite of rename_callback is a simultaneous
\* substitution: every identifier of the original comment that is a
\* successfully renamed original name n stands as names[n] in the new
\* comment, every other token is unchanged, and no text that a substitution
\* introduced is rewritten by another one.
CE_C17_SimultaneousSubstitution ==
    (px.fn = "rename_callback" /\ px.called /\ px.out.set_func_cmt) =>
        LET names == px.names
            old == TokensFrom(px.comment, 1)
            new == TokensFrom(px.out.func_cmt, 1)
            NewNameOf(tok) == names[CHOOSE i \in 1..Len(names) : names[i][1] = tok][2]
        IN  /\ Len(new) = Len(old)
            /\ \A k \in 1..Len(old) :
                  new[k] = IF old[k] \in px.ok THEN NewNameOf(old[k]) ELSE old[k]



\* C18: whenever extract_json_or_retry returns no mapping to
\* inline_comments_callback or rename_callback (it started a repair query or
\* it gave up), the callback returns without a call that changes host state:
\* the step in which the callback leaves its body adds nothing to the log of
\* set_user_cmt, save_user_cmts, rename_lvar, set_func_cmt and refresh_view
\* calls.
C18_NoMappingNoMutation ==
    [][\A t \in Threads :
          (/\ thr[t].pc = "callback"
           /\ thr[t].cb.fn \in {"inline_comments_callback", "rename_callback"}
           /\ ExtractTable[thr[t].response, thr[t].cb.retries].ret = None
           /\ thr'[t].pc # "callback")
              => hostLog' = hostLog]_vars

\* a chain of comment or rename callbacks that asked for repairs up to the
\* cap and gave up, with no host call made
W_C18_GaveUpUntouched ==
    \E a \in Actions :
        /\ act[a].kind \in {"comments", "rename"}
        /\ ChainOver(a) /\ chain[a].msg = "giving_up" /\ queries[a] = RetryCap + 1
        /\ hostLog = {}



(***************************************************************************)
(* One user action whose replies arrive while the user moves the cursor    *)
(* between two functions (SpecCursor).                                     *)
(***************************************************************************)
\* another function of the database, which the cursor can be moved to
OtherEa == 2

Addrs == {FuncEa, OtherEa}

\* the user moves the cursor, on the UI thread, between two callbacks:
\* idaapi.get_screen_ea() gives ea from now on
MoveCursor(ea) ==
    /\ ~UiBusy
    /\ ea # screen_ea
    /\ screen_ea' = ea
    /\ UNCHANGED <<vdui, nact, act, thr, hostLog, marshaled, queries, chain, px>>

NextCursor ==
    \/ \E kind \in Kinds : Activate(kind, 1)
    \/ \E ea \in Addrs : MoveCursor(ea)
    \/ \E t \in Threads, text \in ConcReplies : ApiReply(t, text)
    \/ \E t \in Threads : RunCallback(t)
    \/ \E t \in Threads : CallbackStep(t)

SpecCursor == Init /\ [][NextCursor]_vars

\* C19: every query of the chain of a user action, the repair queries
\* included, carries the callback bound to the arguments of the action (the
\* address under the cursor when the action was triggered, the view, the
\* decompiled function); only the retry counter differs, wherever the
\* cursor stands when a reply arrives.
CE_C19_RetryKeepsBoundArguments ==
    \A t \in Threads :
        thr[t].cb # None =>
            [thr[t].cb EXCEPT !.retries = 0] =
                [fn |-> CallbackOf(act[t[1]].kind),
                 address |-> act[t[1]].address,
                 view |-> act[t[1]].view,
                 decompiled_func |-> IF act[t[1]].kind = "comments"
                                     THEN act[t[1]].address ELSE 0,
                 retries |-> 0]



(***************************************************************************)
(* Explain actions in flight together on one function whose comment is the *)
(* user's text (SpecExplain): the query threads and the UI thread of the   *)
(* plugin, with comment_callback computing the text of the comment.        *)
(***************************************************************************)
\* Longest user text in the function comment before the first explain.
MaxUserLen == 2

InitExplain ==
    /\ InitMain /\ vdui
    /\ px = [fn |-> "explain", user |-> <<>>, func_cmt |-> <<>>, applied |-> <<>>,
             cmts |-> <<>>]

\* one more character of the comment the user wrote on the function
TypeUserText(c) ==
    /\ px.fn = "explain" /\ nact = 0
    /\ Len(px.user) < MaxUserLen
    /\ px' = [px EXCEPT !.user = Append(@, c), !.func_cmt = Append(@, c)]
    /\ UNCHANGED mainVars

\* comment_callback of thread t on the UI thread: idc.get_func_cmt, the new
\* text, idc.set_func_cmt (lines 232-242)
CbCommentText(t) ==
    /\ px.fn = "explain"
    /\ CbCommentHost(t)
    /\ LET func_cmt == NewFuncCmt(thr[t].response, px.func_cmt)
       IN  px' = [px EXCEPT !.func_cmt = func_cmt,
                            !.applied = Append(@, [a |-> t[1], response |-> thr[t].response]),
                            !.cmts = Append(@, func_cmt)]

NextExplain ==
    \/ \E c \in OutsideChars : TypeUserText(c)
    \/ Activate("explain", MaxConcurrent)
    \/ \E t \in Threads, text \in CommentResponses : ApiReply(t, text)
    \/ \E t \in Threads : RunCallback(t)
    \/ \E t \in Threads : CbCommentText(t)

SpecExplain == InitExplain /\ [][NextExplain]_vars

\* C20: after explain actions launched together on one function, in
\* whatever order their replies (which hold no marker string) are applied,
\* the function comment is exactly one Gepetto block, holding the reply
\* applied last, followed by a blank line and the user's text (without the
\* whitespace at its ends); and applying a reply equal to the one applied
\* just before leaves the comment as it was.
C20_OneBlockLastReplyWins ==
    (px.fn = "explain" /\ px.applied # <<>>) =>
        LET n == Len(px.applied)
        IN  /\ px.func_cmt =
                   NewBlockOf(px.applied[n].response) \o BlankLine \o Strip(px.user)
            /\ Cardinality(Occurrences(px.func_cmt, GepettoHeader)) = 1
            /\ Cardinality(Occurrences(px.func_cmt, GepettoFooter)) = 1
            /\ px.cmts[n] = px.func_cmt
            /\ \A k \in 2..n :
                  px.applied[k].response = px.applied[k - 1].response
                      => px.cmts[k] = px.cmts[k - 1]

\* two explains on a function with user text, the reply of the second
\* applied before the different reply of the first
W_C20_RepliesOutOfOrder ==
    /\ px.fn = "explain" /\ Len(px.applied) = 2
    /\ px.applied[1].a = 2 /\ px.applied[2].a = 1
    /\ px.applied[1].response # px.applied[2].response
    /\ Strip(px.user) # <<>> /\ Strip(px.user) # px.user



\* C21: the chain of a rename or auto-complete action whose queries all get
\* a reply comes to a stop, and when it has stopped it shows exactly one of
\* two reports: the finish message of the callback that applied the
\* extracted mapping, or the give-up message with the raw reply; it never
\* stops with neither, whatever the reply (the empty JSON object included).
CE_C21_EndsAppliedOrGaveUp ==
    /\ [](\A a \in Actions :
            (ChainOver(a) /\ act[a].kind \in {"comments", "rename"} /\ ~ApiFailed(a))
                => \/ chain[a].msg = "query_finished" /\ chain[a].data.t = "obj"
                   \/ chain[a].msg = "giving_up" /\ chain[a].dumped # <<>>)
    /\ \A a \in Actions : (act[a].kind \in {"comments", "rename"}) ~> ChainOver(a)


====
